---------------------------- MODULE Spec2Model ----------------------------
(***************************************************************************)
(* csv-file-copy.py: copy the files named in one column of a CSV file from *)
(* a source directory to a target directory.                               *)
(*                                                                         *)
(* A path is modelled as the sequence of its "/"-separated components      *)
(* ("" is <<"">>, "./a.txt" is <<".", "a.txt">>), a directory as the       *)
(* record of its regular files (normalised relative path -> content) and   *)
(* of its sub-directories.  source_dir and target_dir are two distinct     *)
(* directories.  Every CSV row has a cell under every header column.       *)
(***************************************************************************)
EXTENDS Integers, Sequences, FiniteSets, TLC

VARIABLES
    pc,              \* position of main(): validate, extract, dispatch, report, done, usage_error, crashed
    missing,         \* the first of csv_file, source_dir, target_dir that does not exist, or "none"
    overwrite,       \* args.overwrite
    dry_run,         \* args.dry_run
    quiet,           \* args.quiet
    header,          \* the column names of the CSV header row
    rows,            \* the cells of the data rows under args.column_name (when the header has it)
    source,          \* contents of args.source_dir
    target,          \* contents of args.target_dir
    target0,         \* contents of args.target_dir when the run started
    platform,        \* sys.platform
    registry,        \* the (name, value) pairs under the FileSystem registry key
    target_len,      \* len(abspath(args.target_dir))
    files,           \* the deduplicated filename list
    idx,             \* number of filenames the dispatch loop has taken
    copied, not_found, already_exist, path_error,
    stdout           \* the lines printed

vars == <<pc, missing, overwrite, dry_run, quiet, header, rows, source, target,
          target0, platform, registry, target_len, files, idx,
          copied, not_found, already_exist, path_error, stdout>>

-----------------------------------------------------------------------------
(* Bounds of the model *)

\* most data rows in the CSV of a full run
MaxRows == 2
\* most data rows in the CSV of an extraction-centred run
MaxCsvRows == 3

(* Program constants *)

\* the path length from which a path is too long without long-path support
MAX_PATH == 260

\* default of --column-name
column_name == "filename"

-----------------------------------------------------------------------------
(* Inputs *)

FileNames ==
    { <<"">>, <<"a.txt">>, <<".", "a.txt">>, <<"sub", "a.txt">>, <<"sub">> }

StoredFiles == { <<"a.txt">>, <<"sub", "a.txt">> }

Headers == { {"filename", "size"}, {"name", "size"} }

TargetLens == { 253, 254 }

\* values the LongPathsEnabled registry entry takes
RegValues == { 0, 1 }

\* the registry key without the entry, or with it
Registries == { {} } \cup { { <<"LongPathsEnabled", v>> } : v \in RegValues }

\* len() of one path component
StrLen(c) ==
    CASE c = "a.txt" -> 5
      [] c = "sub"   -> 3
      [] c = "."     -> 1
      [] OTHER       -> 0

SeqsUpTo(S, n) == UNION { [1..k -> S] : k \in 0..n }

Prefixes(p) == { SubSeq(p, 1, k) : k \in 0..(Len(p) - 1) }

\* a directory holding the regular files fs (with contents tagged tag) and
\* the sub-directories extra besides those its files lie in
Directory(fs, tag, extra) ==
    [ files |-> [p \in fs |-> <<tag, p>>],
      dirs  |-> { << >> } \cup extra \cup UNION { Prefixes(p) : p \in fs } ]

SourceDirs == { Directory(fs, "source_dir", {}) : fs \in SUBSET StoredFiles }

TargetDirs ==
    { Directory(fs, "target_dir", extra) :
        fs \in SUBSET StoredFiles, extra \in { {}, { <<"sub">> } } }

-----------------------------------------------------------------------------
(* os.path *)

\* os.path.join(dir, file): dir, a separator, file
join(dir, file) == <<dir>> \o file

\* os.path.normpath of the part of path p below its directory: "." and
\* empty components are dropped
normpath(p) == SelectSeq(Tail(p), LAMBDA c : c # "." /\ c # "")

\* basename taken as what precedes the first separator below the directory
basename_first(p) == p[2]

\* os.path.basename: what follows the last separator
basename(p) == p[Len(p)]

\* the directory a path starts in
DirOf(p) == IF Head(p) = "source_dir" THEN source ELSE target

isfile(p) == normpath(p) \in DOMAIN DirOf(p).files

isdir(p) == normpath(p) \in DirOf(p).dirs

\* exists taken as os.path.isfile
exists_isfile(p) == isfile(p)

\* os.path.exists: true of regular files and of directories
exists(p) == isfile(p) \/ isdir(p)

RECURSIVE RelLen(_)
\* len() of "/c1/c2..." for the components of s
RelLen(s) == IF s = << >> THEN 0 ELSE 1 + StrLen(Head(s)) + RelLen(Tail(s))

\* len(abspath(p)) for a path p that starts in args.target_dir
abspath_len(p) == target_len + RelLen(normpath(p))

-----------------------------------------------------------------------------
(* Path-length policy *)

is_long_path_available ==
    IF platform = "win32"
    THEN LET long_paths == IF \E v \in RegValues : <<"LongPathsEnabled", v>> \in registry
                           THEN CHOOSE v \in RegValues : <<"LongPathsEnabled", v>> \in registry
                           ELSE 0
         IN  long_paths # 0
    ELSE TRUE

\* the limit taken as inclusive
check_path_length_le(len) == is_long_path_available \/ len <= MAX_PATH

check_path_length(len) == is_long_path_available \/ len < MAX_PATH

-----------------------------------------------------------------------------
(* Filename extraction *)

RECURSIVE fromkeys(_, _)
\* OrderedDict.fromkeys(s): a key is inserted at its first occurrence
fromkeys(s, acc) ==
    IF s = << >> THEN acc
    ELSE fromkeys(Tail(s),
                  IF \E k \in 1..Len(acc) : acc[k] = Head(s)
                  THEN acc ELSE Append(acc, Head(s)))

RECURSIVE KeepLast(_)
\* duplicates removed keeping the last occurrence of each key
KeepLast(s) ==
    IF s = << >> THEN << >>
    ELSE IF \E k \in 2..Len(s) : s[k] = Head(s)
         THEN KeepLast(Tail(s))
         ELSE <<Head(s)>> \o KeepLast(Tail(s))

RemoveDuplicates(s) == fromkeys(s, << >>)

\* row[args.column_name] raises KeyError
KeyError == rows # << >> /\ column_name \notin header

-----------------------------------------------------------------------------
(* shutil.copy(src, dst) with dst a directory *)

\* where the copy is written: join(dst, basename(src))
copy_dst(src, dst) == join(dst, <<basename(src)>>)

\* the copy raises (IsADirectoryError, PermissionError on win32)
copy_raises(src, dst) == isdir(src) \/ isdir(copy_dst(src, dst))

\* args.target_dir after the copy
copy(src, dst) ==
    LET to == normpath(copy_dst(src, dst))
    IN  [ target EXCEPT !.files =
            [ p \in DOMAIN target.files \cup { to } |->
                IF p = to THEN source.files[normpath(src)] ELSE target.files[p] ] ]

-----------------------------------------------------------------------------
(* Output *)

print(line) == IF quiet THEN stdout ELSE Append(stdout, line)

Summary ==
    << <<"Operation complete">>, <<"files copied", copied>> >>
    \o (IF not_found # 0
        THEN << <<"files not found in source", not_found>> >> ELSE << >>)
    \o (IF already_exist # 0
        THEN << <<"files already exist in destination", already_exist>> >> ELSE << >>)
    \o (IF path_error # 0
        THEN << <<"files have path lengths that are too long", path_error>> >> ELSE << >>)

-----------------------------------------------------------------------------
(* Initial states *)

EmptyDir(tag) == Directory({}, tag, {})

Environment ==
    /\ pc = "validate"
    /\ missing \in {"none", "csv_file", "source_dir", "target_dir"}
    /\ overwrite \in BOOLEAN
    /\ dry_run \in BOOLEAN
    /\ header \in Headers
    /\ IF missing = "none"
       THEN source \in SourceDirs /\ target \in TargetDirs
       ELSE source = EmptyDir("source_dir") /\ target = EmptyDir("target_dir")
    /\ target0 = target
    /\ files = << >>
    /\ idx = 0
    /\ copied = 0 /\ not_found = 0 /\ already_exist = 0 /\ path_error = 0
    /\ stdout = << >>

\* every configuration, platform and directory content, short CSV files
Init ==
    /\ Environment
    /\ quiet \in BOOLEAN
    /\ rows \in IF missing = "none" THEN SeqsUpTo(FileNames, MaxRows) ELSE { << >> }
    /\ platform \in {"win32", "linux"}
    /\ registry \in IF platform = "win32" THEN Registries ELSE { {} }
    /\ target_len \in TargetLens

\* longer CSV files, on the platform that restricts path lengths
InitCsv ==
    /\ Environment
    /\ quiet = FALSE
    /\ rows \in IF missing = "none" THEN SeqsUpTo(FileNames, MaxCsvRows) ELSE { << >> }
    /\ platform = "win32"
    /\ registry = { <<"LongPathsEnabled", 0>> }
    /\ target_len = 253

-----------------------------------------------------------------------------
(* main() *)

\* lines 52-63: echo the configuration, check that the three paths exist
Validate ==
    /\ pc = "validate"
    /\ stdout' = print(<<"configuration">>)
    /\ pc' = IF missing # "none" THEN "usage_error" ELSE "extract"
    /\ UNCHANGED <<missing, overwrite, dry_run, quiet, header, rows, source,
                   target, target0, platform, registry, target_len,
                   files, idx, copied, not_found, already_exist, path_error>>

\* lines 65-78: read the column, remove duplicates
Extract ==
    /\ pc = "extract"
    /\ IF KeyError
       THEN pc' = "usage_error" /\ files' = files
       ELSE pc' = "dispatch" /\ files' = RemoveDuplicates(rows)
    /\ UNCHANGED <<missing, overwrite, dry_run, quiet, header, rows, source,
                   target, target0, platform, registry, target_len,
                   idx, copied, not_found, already_exist, path_error, stdout>>

source_file_exists(file) == exists(join("source_dir", file))

\* the skip taken only when there is something to copy
skip_existing_if_source(file) ==
    ~overwrite /\ exists(join("target_dir", file)) /\ source_file_exists(file)

\* line 82
skip_existing(file) == ~overwrite /\ exists(join("target_dir", file))

\* line 88
can_copy(file) ==
    source_file_exists(file) /\ check_path_length(abspath_len(join("target_dir", file)))

\* the dry-run flag ignored
do_copy_always == TRUE

\* line 92
do_copy == ~dry_run

Fixed == <<missing, overwrite, dry_run, quiet, header, rows, source, target0,
           platform, registry, target_len, files>>

\* lines 82-86
AlreadyExists(file) ==
    /\ skip_existing(file)
    /\ stdout' = print(<<"Skipping", file>>)
    /\ already_exist' = already_exist + 1
    /\ idx' = idx + 1
    /\ UNCHANGED <<pc, target, copied, not_found, path_error>>

\* lines 88-94
CopyFile(file) ==
    /\ ~skip_existing(file)
    /\ can_copy(file)
    /\ stdout' = print(<<"Copying", file>>)
    /\ IF do_copy /\ copy_raises(join("source_dir", file), <<"target_dir">>)
       THEN /\ pc' = "crashed"
            /\ UNCHANGED <<target, copied, idx>>
       ELSE /\ target' = IF do_copy
                         THEN copy(join("source_dir", file), <<"target_dir">>)
                         ELSE target
            /\ copied' = copied + 1
            /\ idx' = idx + 1
            /\ pc' = pc
    /\ UNCHANGED <<not_found, already_exist, path_error>>

\* the path-error branch without its counter
PathTooLong_uncounted(file) ==
    /\ ~skip_existing(file)
    /\ ~can_copy(file)
    /\ source_file_exists(file)
    /\ stdout' = print(<<"Path length too long, skipping", file>>)
    /\ idx' = idx + 1
    /\ UNCHANGED <<pc, target, copied, not_found, already_exist, path_error>>

\* lines 96-100
PathTooLong(file) ==
    /\ ~skip_existing(file)
    /\ ~can_copy(file)
    /\ source_file_exists(file)
    /\ stdout' = print(<<"Path length too long, skipping", file>>)
    /\ path_error' = path_error + 1
    /\ idx' = idx + 1
    /\ UNCHANGED <<pc, target, copied, not_found, already_exist>>

\* lines 102-106
NotFound(file) ==
    /\ ~skip_existing(file)
    /\ ~can_copy(file)
    /\ ~source_file_exists(file)
    /\ stdout' = print(<<"does not exist", file>>)
    /\ not_found' = not_found + 1
    /\ idx' = idx + 1
    /\ UNCHANGED <<pc, target, copied, already_exist, path_error>>

\* lines 79-106: one iteration of the loop over files
Dispatch ==
    /\ pc = "dispatch"
    /\ idx < Len(files)
    /\ LET file == files[idx + 1]
       IN  \/ AlreadyExists(file)
           \/ CopyFile(file)
           \/ PathTooLong(file)
           \/ NotFound(file)
    /\ UNCHANGED Fixed

\* lines 108-118
Report ==
    /\ pc = "dispatch"
    /\ idx = Len(files)
    /\ stdout' = IF quiet THEN stdout ELSE stdout \o Summary
    /\ pc' = "done"
    /\ UNCHANGED <<target, idx, copied, not_found, already_exist, path_error>>
    /\ UNCHANGED Fixed

Next == Validate \/ Extract \/ Dispatch \/ Report

Spec == Init /\ [][Next]_vars

SpecCsv == InitCsv /\ [][Next]_vars

-----------------------------------------------------------------------------
(* Vocabulary of the properties *)

Sum == copied + not_found + already_exist + path_error

\* the loop is about to take a filename
AtFile == pc = "dispatch" /\ idx < Len(files)

\* the filename the loop is about to take
file_ == files[idx + 1]

Unique == { rows[k] : k \in 1..Len(rows) }

\* the counters a step leaves alone
Same(cs) ==
    /\ ("copied" \in cs => copied' = copied)
    /\ ("not_found" \in cs => not_found' = not_found)
    /\ ("already_exist" \in cs => already_exist' = already_exist)
    /\ ("path_error" \in cs => path_error' = path_error)

\* the bucket a step puts its filename in
StepBucket ==
    CASE already_exist' = already_exist + 1 /\ Same({"copied", "not_found", "path_error"})
            -> "already_exist"
      [] copied' = copied + 1 /\ Same({"not_found", "already_exist", "path_error"})
            -> "copied"
      [] path_error' = path_error + 1 /\ Same({"copied", "not_found", "already_exist"})
            -> "path_error"
      [] not_found' = not_found + 1 /\ Same({"copied", "already_exist", "path_error"})
            -> "not_found"
      [] OTHER -> "none"

\* the path target_dir/<file>, as found in the target directory d
InTarget(d, file) ==
    LET q == normpath(join("target_dir", file))
    IN  q \in DOMAIN d.files \/ q \in d.dirs

InSource(file) ==
    LET q == normpath(join("source_dir", file))
    IN  q \in DOMAIN source.files \/ q \in source.dirs

SourceIsFile(file) == normpath(join("source_dir", file)) \in DOMAIN source.files

DestLen(file) == abspath_len(join("target_dir", file))

\* long-path support is disabled (0) or cannot be determined (no entry)
LongPathOff == platform = "win32" /\ <<"LongPathsEnabled", 1>> \notin registry

\* the bucket of a filename judged on the directories as the run found them
InitialBucket(file) ==
    IF ~overwrite /\ InTarget(target0, file) THEN "already_exist"
    ELSE IF InSource(file) /\ (~LongPathOff \/ DestLen(file) < MAX_PATH) THEN "copied"
    ELSE IF InSource(file) THEN "path_error"
    ELSE "not_found"

\* the copy of a filename raises, judged on the directories as the run found them
InitialRaises(file) ==
    /\ InitialBucket(file) = "copied" /\ ~dry_run
    /\ \/ normpath(join("source_dir", file)) \in source.dirs
       \/ normpath(<<"target_dir", file[Len(file)]>>) \in target0.dirs

\* no filename of the list names the path that the copy of another one writes
AliasFree ==
    \A j, k \in 1..Len(files) :
        j # k => normpath(<<"target_dir", files[j][Len(files[j])]>>)
                    # normpath(join("target_dir", files[k]))

-----------------------------------------------------------------------------
(* Properties *)

\* C1: every iteration of the dispatch loop adds exactly 1 to exactly one of
\* the four counters, so their sum is the number of filenames processed, and
\* at the end of the loop the number of unique filenames.
C1_OneBucketPerFilename ==
    /\ [](Sum = idx /\ (pc = "done" => Sum = Cardinality(Unique)))
    /\ [][idx' # idx => idx' = idx + 1 /\ StepBucket # "none"]_vars

C1_Witness ==
    pc = "done" /\ idx = 2 /\ copied = 1 /\ path_error = 1

\* C2: a run without dry-run ends with the copied counter that the dry run
\* on the same inputs ends with (the number of filenames whose bucket, judged
\* on the initial directories, is "copied").
C2_DryRunCountsAlike ==
    (pc = "done" /\ ~dry_run) =>
        copied = Cardinality({ k \in 1..Len(files) : InitialBucket(files[k]) = "copied" })

\* C3: in a dry run no step changes the target or the source directory.
C3_DryRunWritesNothing ==
    [][dry_run => target' = target /\ source' = source]_vars

C3_Witness ==
    dry_run /\ pc = "done" /\ copied = 2 /\ target = target0

\* C4: with overwrite unset, a filename that exists at target_dir/<filename>
\* when it is processed is counted already-exists and nothing else happens,
\* whatever the source holds and whatever the length of the path.
C4_ExistingIsSkipped ==
    [][(AtFile /\ ~overwrite /\ InTarget(target, file_)) =>
          /\ already_exist' = already_exist + 1
          /\ Same({"copied", "not_found", "path_error"})
          /\ target' = target
          /\ pc' = pc]_vars

C4_Witness ==
    /\ ~overwrite /\ idx = 1 /\ already_exist = 1
    /\ ~InSource(files[1])
    /\ LongPathOff /\ DestLen(files[1]) >= MAX_PATH

\* C5: the filename list holds every distinct cell exactly once, in the order
\* of the cells' first occurrences in the CSV.
C5_DedupFirstOccurrence ==
    pc \in {"dispatch", "done", "crashed"} =>
        LET First(x) == CHOOSE k \in 1..Len(rows) :
                            rows[k] = x /\ \A j \in 1..(k - 1) : rows[j] # x
        IN  /\ { files[k] : k \in 1..Len(files) } = Unique
            /\ Len(files) = Cardinality(Unique)
            /\ \A j, k \in 1..Len(files) : j < k => First(files[j]) < First(files[k])

C5_Witness ==
    /\ pc = "done" /\ Len(rows) = 3
    /\ rows[1] = rows[3] /\ rows[1] # rows[2]
    /\ files = <<rows[1], rows[2]>>

\* C6: a CSV whose header lacks the configured column ends the run in the
\* usage error before the dispatch loop: nothing is counted or copied.
C6_MissingColumnIsUsageError ==
    (missing = "none" /\ column_name \notin header /\ pc \notin {"validate", "extract"}) =>
        pc = "usage_error" /\ Sum = 0 /\ idx = 0 /\ target = target0

\* C7 as stated: the empty filename is counted not-found.
C7_EmptyIsNotFound ==
    [][(AtFile /\ file_ = <<"">>) => StepBucket = "not_found" /\ pc' = pc]_vars

\* C7 as amended: the empty filename names the directories themselves, which
\* exist: it is never counted not-found; with overwrite unset it is counted
\* already-exists; with overwrite set it is counted path-error when the path
\* length check fails, copied in a dry run, and otherwise the copy raises and
\* ends the run with no counter changed.
C7_EmptyNamesTheDirectory ==
    [][(AtFile /\ file_ = <<"">>) =>
          /\ not_found' = not_found
          /\ target' = target
          /\ ~overwrite => StepBucket = "already_exist" /\ pc' = pc
          /\ (overwrite /\ LongPathOff /\ DestLen(file_) >= MAX_PATH) =>
                StepBucket = "path_error" /\ pc' = pc
          /\ (overwrite /\ ~(LongPathOff /\ DestLen(file_) >= MAX_PATH) /\ dry_run) =>
                StepBucket = "copied" /\ pc' = pc
          /\ (overwrite /\ ~(LongPathOff /\ DestLen(file_) >= MAX_PATH) /\ ~dry_run) =>
                pc' = "crashed" /\ Same({"copied", "not_found", "already_exist", "path_error"})
      ]_vars

C7_Witness ==
    /\ ~overwrite /\ idx >= 1 /\ files[idx] = <<"">>
    /\ already_exist = idx /\ not_found = 0

\* C8: with long-path support disabled or indeterminate, a filename found in
\* the source and not skipped is counted path-error, without a copy, exactly
\* when the absolute destination path is 260 or longer, and is otherwise
\* copied (a regular file always is); with long-path support enabled, or on
\* another platform, nothing is ever counted path-error.
C8_PathLengthPolicy ==
    [][AtFile =>
          /\ (LongPathOff /\ InSource(file_) /\ ~(~overwrite /\ InTarget(target, file_))) =>
                /\ DestLen(file_) >= MAX_PATH =>
                      StepBucket = "path_error" /\ target' = target /\ pc' = pc
                /\ DestLen(file_) < MAX_PATH =>
                      \/ StepBucket = "copied" /\ pc' = pc
                      \/ ~SourceIsFile(file_) /\ ~dry_run /\ pc' = "crashed"
          /\ ~LongPathOff => path_error' = path_error
      ]_vars

C8_Witness ==
    /\ platform = "win32" /\ registry = {}
    /\ target_len + 6 = MAX_PATH - 1
    /\ idx = 1 /\ files[1] = <<".", "a.txt">> /\ copied = 1 /\ ~dry_run
    /\ target # target0

\* C9: in a run that is not a dry run, a filename counted copied is afterwards
\* a file at target_dir/<filename> with the content of source_dir/<filename>.
C9_CopyKeepsRelativePath ==
    [][(AtFile /\ ~dry_run /\ StepBucket = "copied") =>
          LET q == normpath(join("target_dir", file_))
          IN  /\ q \in DOMAIN target'.files
              /\ target'.files[q] = source.files[normpath(join("source_dir", file_))]
      ]_vars

\* C10 as stated: the bucket of a filename is the one the configuration and
\* the initial directories give it, whatever was processed before it.
C10_OrderIndependent ==
    [][(AtFile /\ StepBucket # "none") => StepBucket = InitialBucket(file_)]_vars

\* C10 as amended: in a dry run, or with overwrite set, or when no filename
\* of the list names the path target_dir/basename(g) that the copy of another
\* filename g writes, each filename gets the bucket the configuration and the
\* initial directories give it, and the copy raises for it or not, whatever
\* was processed before it.
C10_OrderIndependentUnlessAliased ==
    [][(AtFile /\ (dry_run \/ overwrite \/ AliasFree)) =>
          IF InitialRaises(file_)
          THEN pc' = "crashed" /\ StepBucket = "none"
          ELSE pc' = pc /\ StepBucket = InitialBucket(file_)
      ]_vars

C10_Witness ==
    /\ ~dry_run /\ ~overwrite /\ AliasFree
    /\ pc = "done" /\ idx = 2 /\ files = << <<"a.txt">>, <<"sub">> >>
    /\ copied = 1 /\ already_exist = 1 /\ target # target0

=====
